---- MODULE Spec2Model ----
(***************************************************************************)
(* Model of examples/pyeda/python_code/common.py: the pipeline             *)
(*   backdoor_to_clauses = cubes_to_dnf ; minimize_dnf ; ~ / to_cnf ;      *)
(*                         cnf_to_clauses                                  *)
(* The Boolean-algebra engine (pyeda expressions) and the minimizer        *)
(* (espresso_exprs) are external: what they return is drawn with \E from   *)
(* the values their interface allows.                                      *)
(***************************************************************************)
EXTENDS Integers, Sequences, FiniteSets, TLC

VARIABLES
    cubes,      \* the argument `easy` / `cubes`: a list of lists of signed ints
    pc,         \* position in backdoor_to_clauses
    err,        \* kind of the exception that ended the run, "none" if none
    failed_at,  \* the function that raised, "none" if none
    i, j,       \* loop positions of lines 36 and 38 (cube, literal)
    var_map,    \* cubes_to_dnf's var_map: variable id -> engine variable
    allocs,     \* the variable ids exprvar was called with, in call order
    lits_expr,  \* line 37
    cubes_expr, \* line 34
    dnf,        \* line 48, None until built
    is_dnf,     \* the engine's answer at line 49, None until asked
    ncovers,    \* size of the collection espresso_exprs returned, None until called
    min_dnf,    \* line 21, None until bound
    min_cnf,    \* line 22, None until bound
    is_cnf,     \* the engine's answer at line 62, None until asked
    encoded,    \* what encode_cnf returned at line 64, None until called
    result      \* the list backdoor_to_clauses returns, None until returned

vars == <<cubes, pc, err, failed_at, i, j, var_map, allocs, lits_expr, cubes_expr,
          dnf, is_dnf, ncovers, min_dnf, min_cnf, is_cnf, encoded, result>>

\* ---------------------------------------------------------------- bounds
\* variable identifiers are 1..MaxVar
MaxVar == 2
\* a batch holds at most MaxLits literals in all
MaxLits == 4

\* ---------------------------------------------------------------- helpers
None == <<>>
Some(x) == <<x>>

Abs(x) == IF x < 0 THEN -x ELSE x

Range(s) == {s[k] : k \in DOMAIN s}

\* common.py:9
bool2sign(b) == IF b THEN -1 ELSE 1

\* common.py:13
signed(x, s) == bool2sign(s) * x

\* ---------------------------------------------------------------- inputs
Literals == {l \in (-MaxVar)..MaxVar : l # 0}

CubesOfLen(n) == [1..n -> Literals]

\* every list of non-empty cubes holding at most b literals in all
RECURSIVE Batches(_)
Batches(b) ==
    {<<>>} \cup
    UNION { UNION { { <<c>> \o rest : rest \in Batches(b - n) } : c \in CubesOfLen(n) }
            : n \in 1..b }

\* ---------------------------------------------------------------- engine values
\* exprvar("x", var): the engine's variable x[var]
exprvar(name, index) == [name |-> name, indices |-> <<index>>]

\* lines 42-45: ~var_map[var] for a negative literal, var_map[var] otherwise
LitExpr(h, lit) == [v |-> h, neg |-> lit < 0]

\* And(*lits_expr), Or(*cubes_expr): n-ary, commutative, idempotent
And(s) == Range(s)
Or(s) == Range(s)

NegLit(l) == [v |-> l.v, neg |-> ~l.neg]

\* ~f for a disjunction of conjunctions f: the engine pushes the negation to
\* the literals, which leaves a conjunction of disjunctions
NotDropped(f) == f
Not(f) == { {NegLit(l) : l \in c} : c \in f }

Support(f) == {l.v : l \in UNION f}

Assignments(V) == [V -> BOOLEAN]

HoldsLit(a, l) == a[l.v] # l.neg

EvalDnf(a, f) == \E c \in f : \A l \in c : HoldsLit(a, l)

EvalCnf(a, g) == \A c \in g : \E l \in c : HoldsLit(a, l)

\* the terms (cubes or clauses) over V with at most one literal per variable
Terms(V) ==
    { t \in SUBSET { [v |-> h, neg |-> n] : h \in V, n \in BOOLEAN } :
        \A l \in t : NegLit(l) \notin t }

\* the sets of at most m terms of U
RECURSIVE UpTo(_, _)
UpTo(U, m) ==
    IF m = 0 THEN {{}}
    ELSE LET P == UpTo(U, m - 1) IN P \cup { p \cup {t} : p \in P, t \in U }

\* espresso_exprs(dnf): the covers the minimizer may hand back for one input;
\* over the input's variables, no more cubes than the input has
Covers(f) == UpTo(Terms(Support(f)), Cardinality(f))

\* the collections espresso_exprs may return: zero, one or two covers
OracleReturns(f) == UNION { [1..n -> Covers(f)] : n \in {0, 1, 2} }

\* f.to_cnf() for f already a conjunction of disjunctions: any equivalent
\* conjunction of disjunctions over f's variables with no more clauses
ToCnf(f) ==
    { g \in UpTo(Terms(Support(f)), Cardinality(f)) :
        \A a \in Assignments(Support(f)) : EvalCnf(a, g) <=> EvalCnf(a, f) }

\* ---------------------------------------------------------------- Init
Init ==
    /\ cubes \in Batches(MaxLits)
    /\ pc = "start"
    /\ err = "none"
    /\ failed_at = "none"
    /\ i = 1
    /\ j = 1
    /\ var_map = <<>>
    /\ allocs = <<>>
    /\ lits_expr = <<>>
    /\ cubes_expr = <<>>
    /\ dnf = None
    /\ is_dnf = None
    /\ ncovers = None
    /\ min_dnf = None
    /\ min_cnf = None
    /\ is_cnf = None
    /\ encoded = None
    /\ result = None

\* ---------------------------------------------------------------- encode_cnf
\* the engine numbers the variables of a formula 1..n in the order of their indices
RECURSIVE SortedVars(_)
SortedVars(V) ==
    IF V = {} THEN <<>>
    ELSE LET m == CHOOSE h \in V : \A o \in V : h.indices[1] <= o.indices[1]
         IN <<m>> \o SortedVars(V \ {m})

\* litmap of encode_cnf, read at line 69 by a positive number: number -> variable
LitMap(g) == SortedVars(Support(g))

EngineIndex(lm, h) == CHOOSE k \in DOMAIN lm : lm[k] = h

\* the engine's integer for a literal: the variable's number, negative if negated
EngineLit(lm, l) == IF l.neg THEN -EngineIndex(lm, l.v) ELSE EngineIndex(lm, l.v)

\* every order in which the members of a set may be iterated
Orders(S) ==
    { s \in [1..Cardinality(S) -> S] : \A a, b \in DOMAIN s : a # b => s[a] # s[b] }

RECURSIVE LitOrders(_, _)
LitOrders(lm, cs) ==
    IF cs = <<>> THEN {<<>>}
    ELSE { <<h>> \o t : h \in Orders({EngineLit(lm, l) : l \in Head(cs)}),
                        t \in LitOrders(lm, Tail(cs)) }

\* the clause collections encode_cnf may yield for g, as the loops of lines 66
\* and 68 see them: the clauses in any order, the literals of each in any order
Emissions(g) == UNION { LitOrders(LitMap(g), cs) : cs \in Orders(g) }

\* ---------------------------------------------------------------- cnf_to_clauses
\* line 69: litmap[abs(lit)].indices[0]
VarIndexEngine(lm, lit) == Abs(lit)
VarIndex(lm, lit) == lm[Abs(lit)].indices[1]

\* lines 69-71
ClauseLit(lm, lit) == signed(VarIndex(lm, lit), lit < 0)

\* lines 67-71
ClauseLits(lm, clause) == [k \in DOMAIN clause |-> ClauseLit(lm, clause[k])]

\* list.sort is stable: x goes behind every element whose key is not greater
RECURSIVE InsertLit(_, _)
InsertLit(x, s) ==
    IF s = <<>> THEN <<x>>
    ELSE IF Abs(x) < Abs(Head(s)) THEN <<x>> \o s
    ELSE <<Head(s)>> \o InsertLit(x, Tail(s))

RECURSIVE SortLitsInto(_, _)
SortLitsInto(acc, rest) ==
    IF rest = <<>> THEN acc
    ELSE SortLitsInto(InsertLit(Head(rest), acc), Tail(rest))

\* line 72: c.sort(key=lambda x: abs(x))
SortLitsSkipped(c) == c
SortLits(c) == SortLitsInto(<<>>, c)

\* tuple(map(abs, x))
AbsTuple(c) == [k \in DOMAIN c |-> Abs(c[k])]

\* Python's < on tuples of integers
RECURSIVE TupleLess(_, _)
TupleLess(a, b) ==
    IF a = <<>> THEN b # <<>>
    ELSE IF b = <<>> THEN FALSE
    ELSE IF Head(a) # Head(b) THEN Head(a) < Head(b)
    ELSE TupleLess(Tail(a), Tail(b))

\* line 76: the key (len(x), tuple(map(abs, x))), compared as a pair
KeyLess(x, y) ==
    \/ Len(x) < Len(y)
    \/ Len(x) = Len(y) /\ TupleLess(AbsTuple(x), AbsTuple(y))

RECURSIVE InsertClause(_, _)
InsertClause(x, s) ==
    IF s = <<>> THEN <<x>>
    ELSE IF KeyLess(x, Head(s)) THEN <<x>> \o s
    ELSE <<Head(s)>> \o InsertClause(x, Tail(s))

RECURSIVE SortClausesInto(_, _)
SortClausesInto(acc, rest) ==
    IF rest = <<>> THEN acc
    ELSE SortClausesInto(InsertClause(Head(rest), acc), Tail(rest))

\* line 76: clauses.sort(key=...)
SortClausesSkipped(cs) == cs
SortClauses(cs) == SortClausesInto(<<>>, cs)

\* lines 65-80, after the assertion: the list built from what encode_cnf gave
cnf_to_clauses(lm, clauses) ==
    SortClauses([k \in DOMAIN clauses |-> SortLits(ClauseLits(lm, clauses[k]))])

\* ---------------------------------------------------------------- cubes_to_dnf
\* [abs(lit) for lit in cube]
Magnitudes(cube) == [k \in DOMAIN cube |-> Abs(cube[k])]

\* line 30: variables == [abs(lit) for lit in cube], equality of lists
CubeMatchesSet(variables, cube) == Range(variables) = Range(Magnitudes(cube))
CubeMatchesLen(variables, cube) == Len(variables) = Len(cube)
CubeMatches(variables, cube) == variables = Magnitudes(cube)

\* line 40: var not in var_map
NeedsAllocAlways(var, vm) == TRUE
NeedsAlloc(var, vm) == var \notin DOMAIN vm

\* lines 49 and 62: assert f.is_dnf() / assert cnf.is_cnf()
AssertPassesAlways(ok) == TRUE
AssertPasses(ok) == ok

\* line 21: (min_dnf,) = ... binds only a collection of exactly one
UnpacksFirst(ret) == Len(ret) >= 1
Unpacks(ret) == Len(ret) = 1

\* an exception leaves backdoor_to_clauses: nothing later runs
Raise(kind, where) ==
    /\ pc' = "failed"
    /\ err' = kind
    /\ failed_at' = where

\* lines 28-30
Validate ==
    /\ pc = "start"
    /\ IF cubes = <<>>
       THEN Raise("IndexError", "cubes_to_dnf")
       ELSE IF \A k \in DOMAIN cubes : CubeMatches(Magnitudes(cubes[1]), cubes[k])
       THEN pc' = "encode" /\ UNCHANGED <<err, failed_at>>
       ELSE Raise("input_contract", "cubes_to_dnf")
    /\ UNCHANGED <<cubes, i, j, var_map, allocs, lits_expr, cubes_expr, dnf, is_dnf,
                   ncovers, min_dnf, min_cnf, is_cnf, encoded, result>>

\* lines 38-45, one pass of the inner loop
EncodeLit ==
    /\ pc = "encode"
    /\ i <= Len(cubes)
    /\ j <= Len(cubes[i])
    /\ LET lit == cubes[i][j]
           var == Abs(lit)
           new == NeedsAlloc(var, var_map)
           vm == IF new
                 THEN [k \in DOMAIN var_map \cup {var} |->
                          IF k = var THEN exprvar("x", var) ELSE var_map[k]]
                 ELSE var_map
       IN /\ var_map' = vm
          /\ allocs' = IF new THEN Append(allocs, var) ELSE allocs
          /\ lits_expr' = Append(lits_expr, LitExpr(vm[var], lit))
    /\ j' = j + 1
    /\ UNCHANGED <<cubes, pc, err, failed_at, i, cubes_expr, dnf, is_dnf, ncovers,
                   min_dnf, min_cnf, is_cnf, encoded, result>>

\* lines 36-37 and 46: the cube's conjunction is appended, the next cube starts
EndCube ==
    /\ pc = "encode"
    /\ i <= Len(cubes)
    /\ j > Len(cubes[i])
    /\ cubes_expr' = Append(cubes_expr, And(lits_expr))
    /\ lits_expr' = <<>>
    /\ i' = i + 1
    /\ j' = 1
    /\ UNCHANGED <<cubes, pc, err, failed_at, var_map, allocs, dnf, is_dnf, ncovers,
                   min_dnf, min_cnf, is_cnf, encoded, result>>

\* lines 48-50
Assemble ==
    /\ pc = "encode"
    /\ i > Len(cubes)
    /\ dnf' = Some(Or(cubes_expr))
    /\ \E ok \in BOOLEAN :
          /\ is_dnf' = Some(ok)
          /\ IF AssertPasses(ok)
             THEN pc' = "minimize" /\ UNCHANGED <<err, failed_at>>
             ELSE Raise("structural", "cubes_to_dnf")
    /\ UNCHANGED <<cubes, i, j, var_map, allocs, lits_expr, cubes_expr, ncovers,
                   min_dnf, min_cnf, is_cnf, encoded, result>>

\* ---------------------------------------------------------------- backdoor_to_clauses
\* line 21 with lines 53-56
Minimize ==
    /\ pc = "minimize"
    /\ \E ret \in OracleReturns(dnf[1]) :
          /\ ncovers' = Some(Len(ret))
          /\ IF Unpacks(ret)
             THEN /\ min_dnf' = Some(ret[1])
                  /\ pc' = "convert"
                  /\ UNCHANGED <<err, failed_at>>
             ELSE /\ min_dnf' = None
                  /\ Raise("cardinality", "backdoor_to_clauses")
    /\ UNCHANGED <<cubes, i, j, var_map, allocs, lits_expr, cubes_expr, dnf, is_dnf,
                   min_cnf, is_cnf, encoded, result>>

\* line 22
Convert ==
    /\ pc = "convert"
    /\ \E g \in ToCnf(Not(min_dnf[1])) : min_cnf' = Some(g)
    /\ pc' = "cnf_to_clauses"
    /\ UNCHANGED <<cubes, err, failed_at, i, j, var_map, allocs, lits_expr, cubes_expr,
                   dnf, is_dnf, ncovers, min_dnf, is_cnf, encoded, result>>

\* lines 23-24 with lines 59-80
CnfToClauses ==
    /\ pc = "cnf_to_clauses"
    /\ \E ok \in BOOLEAN :
          /\ is_cnf' = Some(ok)
          /\ IF AssertPasses(ok)
             THEN \E e \in Emissions(min_cnf[1]) :
                     /\ encoded' = Some([litmap |-> LitMap(min_cnf[1]), clauses |-> e])
                     /\ result' = Some(cnf_to_clauses(LitMap(min_cnf[1]), e))
                     /\ pc' = "done"
                     /\ UNCHANGED <<err, failed_at>>
             ELSE /\ Raise("structural", "cnf_to_clauses")
                  /\ UNCHANGED <<encoded, result>>
    /\ UNCHANGED <<cubes, i, j, var_map, allocs, lits_expr, cubes_expr, dnf, is_dnf,
                   ncovers, min_dnf, min_cnf>>

Next ==
    \/ Validate
    \/ EncodeLit
    \/ EndCube
    \/ Assemble
    \/ Minimize
    \/ Convert
    \/ CnfToClauses

Spec == Init /\ [][Next]_vars

\* ---------------------------------------------------------------- properties
\* the meaning of signed-integer cubes and clauses under an assignment of 1..MaxVar
IntAssignments == [1..MaxVar -> BOOLEAN]

LitTrue(a, l) == IF l > 0 THEN a[l] ELSE ~a[-l]

CubeTrue(a, cube) == \A k \in DOMAIN cube : LitTrue(a, cube[k])

ClauseTrue(a, clause) == \E k \in DOMAIN clause : LitTrue(a, clause[k])

MagSet(cube) == {Abs(cube[k]) : k \in DOMAIN cube}

InputMags == UNION {MagSet(cubes[k]) : k \in DOMAIN cubes}

\* the cover the minimizer returned means what the formula it was given means
OracleEquivalent ==
    \A a \in Assignments(Support(dnf[1])) : EvalDnf(a, min_dnf[1]) <=> EvalDnf(a, dnf[1])

\* C1: when the minimizer returned one cover equivalent to its input, the
\* returned clauses, conjoined, are true under exactly the assignments that make
\* every input cube false.
C1_SemanticRoundTrip ==
    (pc = "done" /\ OracleEquivalent) =>
        \A a \in IntAssignments :
            (\A k \in DOMAIN result[1] : ClauseTrue(a, result[1][k]))
                <=> (\A k \in DOMAIN cubes : ~CubeTrue(a, cubes[k]))

C1_Witness ==
    /\ pc = "done"
    /\ OracleEquivalent
    /\ cubes = << <<1, 2>>, <<-1, -2>> >>
    /\ Len(result[1]) = 2

\* C2: a batch in which some cube's magnitudes differ from the first cube's
\* fails with the input-contract violation before any variable is allocated
\* and before the minimizer is called.
C2_MismatchFailsFirst ==
    (/\ cubes # <<>>
     /\ \E k \in DOMAIN cubes : MagSet(cubes[k]) # MagSet(cubes[1])
     /\ pc # "start") =>
        /\ pc = "failed"
        /\ err = "input_contract"
        /\ failed_at = "cubes_to_dnf"
        /\ allocs = <<>>
        /\ DOMAIN var_map = {}
        /\ dnf = None
        /\ ncovers = None
        /\ result = None

C2_Witness ==
    /\ cubes = << <<1, 2>>, <<1, 1>> >>
    /\ pc = "failed"

\* C3 as stated: a non-empty batch is accepted exactly when every cube's set of
\* magnitudes equals the first cube's set.
C3_SetValidation ==
    (cubes # <<>> /\ pc # "start") =>
        ((err # "input_contract")
            <=> \A k \in DOMAIN cubes : MagSet(cubes[k]) = MagSet(cubes[1]))

\* C3 amended: a non-empty batch is accepted exactly when every cube lists the
\* magnitudes of the first cube position by position (same length, same
\* magnitude at each position).
C3_PositionalValidation ==
    (cubes # <<>> /\ pc # "start") =>
        ((err # "input_contract")
            <=> \A k \in DOMAIN cubes :
                    /\ Len(cubes[k]) = Len(cubes[1])
                    /\ \A m \in DOMAIN cubes[k] : Abs(cubes[k][m]) = Abs(cubes[1][m]))

C3_Witness ==
    /\ cubes = << <<1, 2>>, <<-2, 1>> >>
    /\ err = "input_contract"

\* C4: when the minimizer returns a collection of size other than one, the run
\* fails with a cardinality error; nothing is converted or encoded and no
\* clause list is returned.
C4_CardinalityFails ==
    (ncovers # None /\ ncovers[1] # 1) =>
        /\ pc = "failed"
        /\ err = "cardinality"
        /\ min_dnf = None
        /\ min_cnf = None
        /\ is_cnf = None
        /\ encoded = None
        /\ result = None

C4_Witness ==
    /\ ncovers = Some(2)
    /\ pc = "failed"

\* C5: the returned list is the same for every order in which the engine may
\* emit the clauses of the same formula and the literals inside them.
C5_EmissionOrderIndependent ==
    pc = "done" =>
        \A e \in Emissions(min_cnf[1]) :
            cnf_to_clauses(encoded[1].litmap, e) = result[1]

\* C6: in the returned list a clause is never longer than a later one, and of
\* two clauses of equal length the earlier one's tuple of magnitudes is
\* lexicographically less than or equal to the later one's.
C6_ClausesSorted ==
    pc = "done" =>
        \A a, b \in DOMAIN result[1] :
            a < b =>
                LET x == result[1][a]
                    y == result[1][b]
                IN /\ Len(x) <= Len(y)
                   /\ Len(x) = Len(y) =>
                        \/ \A q \in DOMAIN x : Abs(x[q]) = Abs(y[q])
                        \/ \E p \in DOMAIN x :
                              /\ Abs(x[p]) < Abs(y[p])
                              /\ \A q \in 1..(p - 1) : Abs(x[q]) = Abs(y[q])

C6_Witness ==
    /\ pc = "done"
    /\ Len(encoded[1].clauses) = 2
    /\ Len(encoded[1].clauses[1]) > Len(encoded[1].clauses[2])

\* C7: every returned clause has its literals in ascending order of magnitude,
\* and its literals are nonzero: +index for a positive engine literal, -index
\* for a negated one, index being the first of the indices of the engine's
\* variable.
C7_LiteralsSortedAndSigned ==
    pc = "done" =>
        /\ \A k \in DOMAIN result[1] :
              /\ \A m \in DOMAIN result[1][k] : result[1][k][m] # 0
              /\ \A m, n \in DOMAIN result[1][k] :
                    m < n => Abs(result[1][k][m]) <= Abs(result[1][k][n])
        /\ { Range(result[1][k]) : k \in DOMAIN result[1] }
             = { { IF l > 0 THEN encoded[1].litmap[l].indices[1]
                            ELSE -(encoded[1].litmap[-l].indices[1]) :
                   l \in Range(encoded[1].clauses[k]) } :
                 k \in DOMAIN encoded[1].clauses }

C7_Witness ==
    /\ pc = "done"
    /\ \E k \in DOMAIN encoded[1].clauses :
          /\ Len(encoded[1].clauses[k]) = 2
          /\ encoded[1].clauses[k][1] = -2

\* C8: every literal of every returned clause has the magnitude of a literal
\* of the input cubes.
C8_NoInventedVariable ==
    pc = "done" =>
        \A k \in DOMAIN result[1] :
            \A m \in DOMAIN result[1][k] : Abs(result[1][k][m]) \in InputMags

C8_Witness ==
    /\ pc = "done"
    /\ InputMags = {2}
    /\ result[1] = << <<-2>> >>

\* C9: when the engine denies that the assembled disjunction is in DNF, or that
\* the converted formula is in CNF, the run fails with a structural error in
\* that function; no later stage runs and no clause list is returned.
C9_ShapeFailureStops ==
    /\ is_dnf = Some(FALSE) =>
          /\ pc = "failed"
          /\ err = "structural"
          /\ failed_at = "cubes_to_dnf"
          /\ ncovers = None
          /\ min_dnf = None
          /\ min_cnf = None
          /\ is_cnf = None
          /\ encoded = None
          /\ result = None
    /\ is_cnf = Some(FALSE) =>
          /\ pc = "failed"
          /\ err = "structural"
          /\ failed_at = "cnf_to_clauses"
          /\ encoded = None
          /\ result = None

C9_Witness ==
    /\ is_cnf = Some(FALSE)
    /\ pc = "failed"
    /\ min_cnf # None

\* the magnitudes of the literals the loops of lines 36 and 38 have passed
Passed ==
    UNION { MagSet(cubes[k]) : k \in 1..(i - 1) }
        \cup (IF i \in DOMAIN cubes THEN {Abs(cubes[i][m]) : m \in 1..(j - 1)} ELSE {})

C10_MapState ==
    /\ \A a, b \in DOMAIN allocs : a # b => allocs[a] # allocs[b]
    /\ Range(allocs) = DOMAIN var_map
    /\ pc = "encode" => DOMAIN var_map = Passed
    /\ \A l \in Range(lits_expr) \cup UNION Range(cubes_expr) :
          l.v = var_map[l.v.indices[1]]
    /\ dnf # None => DOMAIN var_map = MagSet(cubes[1])

C10_MapStep ==
    /\ \A v \in DOMAIN var_map : v \in DOMAIN var_map' /\ var_map'[v] = var_map[v]
    /\ \A k \in DOMAIN allocs : k \in DOMAIN allocs' /\ allocs'[k] = allocs[k]

\* C10: the variable map only grows and never rebinds an entry; exprvar is
\* called once per variable id, when a literal of that id is first passed;
\* every literal built refers to the map's variable for its id; and when the
\* disjunction is built the map's keys are the magnitudes of the first cube.
C10_VarMapStable == []C10_MapState /\ [][C10_MapStep]_vars

C10_Witness ==
    /\ dnf # None
    /\ cubes = << <<1, 2>>, <<-1, -2>> >>
    /\ allocs = <<1, 2>>
====
